---- MODULE Spec2Model ----
(***************************************************************************)
(* The format-B ("0.5") agent encoder of dd-trace:                         *)
(*   packages/dd-trace/src/encode/0.5.js                                   *)
(* AgentEncoder extends the 0.4 encoder; the primitives it inherits        *)
(* (_encodeInteger, _encodeId, _encodeArrayPrefix, _encodeMap,             *)
(* _writeArrayPrefix, _writeTraces, _reset, encode, Chunk.write) are       *)
(* modelled after the design document.                                     *)
(***************************************************************************)
EXTENDS Integers, Sequences, FiniteSets, TLC

(***************************************************************************)
(* Bounds                                                                  *)
(***************************************************************************)
\* encode() calls accepted between two makePayload() calls
MaxTraces == 2
\* spans per trace
MaxSpans == 2
\* spans accepted between two makePayload() calls
MaxBatchSpans == 2

(***************************************************************************)
(* Program constants                                                       *)
(***************************************************************************)
ARRAY_OF_TWO == 146
ARRAY_OF_TWELVE == 156

(***************************************************************************)
(* JavaScript values                                                       *)
(***************************************************************************)
Undefined == [t |-> "undefined"]
Fn == [t |-> "function"]
Str(s) == [t |-> "string", v |-> s]
Num(n) == [t |-> "number", v |-> n]
\* an object literal, as the sequence of its entries in insertion order
Obj(entries) == [t |-> "object", v |-> entries]

\* strings are sequences of code points
S_empty == << >>
S_web == <<119, 101, 98>>
S_GET_a == <<71, 69, 84, 32, 47, 97>>
S_GET_b == <<71, 69, 84, 32, 47, 98>>
S_cafe == <<99, 97, 102, 233>>
S_k == <<107>>
S_m == <<109>>
S_constructor == <<99, 111, 110, 115, 116, 114, 117, 99, 116, 111, 114>>
S_toString == <<116, 111, 83, 116, 114, 105, 110, 103>>
S_valueOf == <<118, 97, 108, 117, 101, 79, 102>>
S_hasOwnProperty == <<104, 97, 115, 79, 119, 110, 80, 114, 111, 112, 101, 114, 116, 121>>

\* names every object created by an object literal inherits from Object.prototype
ObjectPrototypeKeys == {S_constructor, S_toString, S_valueOf, S_hasOwnProperty}

(***************************************************************************)
(* Byte-level helpers                                                      *)
(***************************************************************************)
RECURSIVE Pow2(_)
Pow2(n) == IF n = 0 THEN 1 ELSE 2 * Pow2(n - 1)

\* the k low-order bytes of the non-negative integer n, most significant first
RECURSIVE BigEndian(_, _)
BigEndian(n, k) == IF k = 0 THEN << >> ELSE Append(BigEndian(n \div 256, k - 1), n % 256)

\* the w low-order bits of the non-negative integer n, most significant first
RECURSIVE Bits(_, _)
Bits(n, w) == IF w = 0 THEN << >> ELSE Append(Bits(n \div 2, w - 1), n % 2)

RECURSIVE Zeros(_)
Zeros(w) == IF w = 0 THEN << >> ELSE <<0>> \o Zeros(w - 1)

RECURSIVE BitsToBytes(_)
BitsToBytes(bits) ==
  IF Len(bits) = 0 THEN << >>
  ELSE <<bits[1] * 128 + bits[2] * 64 + bits[3] * 32 + bits[4] * 16
         + bits[5] * 8 + bits[6] * 4 + bits[7] * 2 + bits[8]>>
       \o BitsToBytes(SubSeq(bits, 9, Len(bits)))

RECURSIVE Log2(_)
Log2(n) == IF n <= 1 THEN 0 ELSE 1 + Log2(n \div 2)

\* UTF-8 encoding of one code point below U+0800
Utf8(cp) == IF cp < 128 THEN <<cp>> ELSE <<192 + (cp \div 64), 128 + (cp % 64)>>

RECURSIVE Utf8Bytes(_)
Utf8Bytes(s) == IF Len(s) = 0 THEN << >> ELSE Utf8(Head(s)) \o Utf8Bytes(Tail(s))

\* MessagePack str family header for a string of n bytes
StrHeader(n) ==
  IF n <= 31 THEN <<160 + n>>
  ELSE IF n <= 255 THEN <<217, n>>
  ELSE IF n <= 65535 THEN <<218>> \o BigEndian(n, 2)
  ELSE <<219>> \o BigEndian(n, 4)

\* MessagePack array family header: fixarray, array 16, array 32
ArrayPrefix(n) ==
  IF n <= 15 THEN <<144 + n>>
  ELSE IF n <= 65535 THEN <<220>> \o BigEndian(n, 2)
  ELSE <<221>> \o BigEndian(n, 4)

\* MessagePack map family header: fixmap, map 16, map 32
MapPrefix(n) ==
  IF n <= 15 THEN <<128 + n>>
  ELSE IF n <= 65535 THEN <<222>> \o BigEndian(n, 2)
  ELSE <<223>> \o BigEndian(n, 4)

\* MessagePack integer family, narrowest form
IntegerBytes(n) ==
  IF n >= 0 THEN
    IF n <= 127 THEN <<n>>
    ELSE IF n <= 255 THEN <<204, n>>
    ELSE IF n <= 65535 THEN <<205>> \o BigEndian(n, 2)
    ELSE <<206>> \o BigEndian(n, 4)
  ELSE
    IF n >= -32 THEN <<256 + n>>
    ELSE IF n >= -128 THEN <<208, 256 + n>>
    ELSE IF n >= -32768 THEN <<209>> \o BigEndian(65536 + n, 2)
    ELSE <<210>> \o BigEndian(Pow2(30) * 4 + n, 4)

\* 64-bit unsigned form, never narrower
IdBytes(id) == <<207>> \o BigEndian(id, 8)

\* IEEE-754 binary64 of a non-negative integer, as float 64
FloatBytes(n) ==
  IF n = 0 THEN <<203>> \o Zeros(8)
  ELSE LET e == Log2(n)
       IN <<203>> \o BitsToBytes(<<0>> \o Bits(1023 + e, 11) \o Bits(n - Pow2(e), e)
                                  \o Zeros(52 - e))

(***************************************************************************)
(* Inputs: spans and traces                                                *)
(***************************************************************************)
\* the two spans of the design document's example scenario
SpanA ==
  [service |-> Str(S_web), name |-> Str(S_GET_a), resource |-> Undefined,
   trace_id |-> 1, span_id |-> 1, parent_id |-> 0,
   start |-> Undefined, duration |-> Undefined, error |-> Num(0),
   meta |-> Undefined, metrics |-> Undefined, type |-> Str(S_empty)]

SpanB == [SpanA EXCEPT !.name = Str(S_GET_b), !.span_id = 2]

\* explicit empty resource, absent type, timings, error, tags, a metric and a
\* non-ASCII name
SpanC ==
  [SpanA EXCEPT !.name = Str(S_cafe), !.resource = Str(S_empty), !.type = Undefined,
                !.span_id = 4, !.parent_id = 1,
                !.start = Num(1000), !.duration = Num(70000), !.error = Num(1),
                !.meta = Obj(<<[k |-> Str(S_k), v |-> Str(S_web)]>>),
                !.metrics = Obj(<<[k |-> Str(S_m), v |-> Num(3)]>>)]

\* a service named like a property of Object.prototype
SpanD == [SpanA EXCEPT !.service = Str(S_constructor), !.span_id = 3]

Spans == {SpanA, SpanB, SpanC, SpanD}

\* the sequences of at most n elements of S
RECURSIVE SeqsUpTo(_, _)
SeqsUpTo(S, n) ==
  IF n = 0 THEN {<< >>}
  ELSE LET shorter == SeqsUpTo(S, n - 1)
       IN shorter \cup {Append(q, x) : q \in {r \in shorter : Len(r) = n - 1}, x \in S}

\* a trace is a sequence of spans, each with its own span_id
HasDistinctSpans(trace) ==
  \A i, j \in 1..Len(trace) : i # j => trace[i].span_id # trace[j].span_id

Traces == {trace \in SeqsUpTo(Spans, MaxSpans) : HasDistinctSpans(trace)}

(***************************************************************************)
(* Encoder state                                                           *)
(***************************************************************************)
VARIABLES
  _traceBytes,   \* Chunk: bytes of the traces encoded in this batch
  _stringBytes,  \* Chunk: bytes of the strings interned in this batch
  _stringMap,    \* own properties of the dictionary object: string -> index
  _stringCount,  \* number of interned strings
  _traceCount,   \* number of encode() calls in this batch
  strings,       \* history: the strings handed to _stringBytes.write, in order
  refs,          \* history: what _encodeString handed to _encodeInteger
  batch,         \* history: the traces given to encode() since the last reset
  ret,           \* outcome of the last call
  heap,          \* payload buffers the caller references: storage id -> bytes
  held,          \* history: the payload the caller kept, as it was returned
  pc,            \* suite: what the mocha case is awaiting
  options,       \* suite: the options runWithMocha was given
  tracer,        \* suite: withTracer of the runOne call in progress
  commitish,     \* suite: commitish of the runOne call in progress
  latestCache,   \* suite: module name -> tag
  dirs,          \* suite: the temporary directories that exist
  cwd,           \* suite: cwd of each runOne call
  result,        \* suite: result of the test command in each runOne call
  status,        \* suite: state of the promise of each runOne call
  settled,       \* suite: what the promise of each runOne call settled with
  runner,        \* suite: outcome of the runner call
  verdict,       \* suite: what mocha reports for the case
  steps            \* suite history: the commands and requests run, in order

encoderVars == <<_traceBytes, _stringBytes, _stringMap, _stringCount, _traceCount,
                 strings, refs, batch, ret>>

callerVars == <<heap, held>>

suiteVars == <<pc, options, tracer, commitish, latestCache, dirs, cwd, result,
               status, settled, runner, verdict, steps>>

vars == <<encoderVars, callerVars, suiteVars>>

\* the encoder as one value, threaded through the encoding routines;
\* threw: an exception is propagating, calls: the field writes _encode made
Encoder ==
  [traceBytes |-> _traceBytes, stringBytes |-> _stringBytes, stringMap |-> _stringMap,
   stringCount |-> _stringCount, traceCount |-> _traceCount,
   strings |-> strings, refs |-> refs, calls |-> << >>, threw |-> FALSE]

\* state written by _reset
EmptyEncoder ==
  [traceBytes |-> << >>, stringBytes |-> << >>, stringMap |-> << >>,
   stringCount |-> 0, traceCount |-> 0,
   strings |-> << >>, refs |-> << >>, calls |-> << >>, threw |-> FALSE]

(***************************************************************************)
(* Primitive writer (inherited from the 0.4 encoder)                       *)
(***************************************************************************)
WriteTrace(e, bytes) == [e EXCEPT !.traceBytes = @ \o bytes]

_encodeByte(e, value) == IF e.threw THEN e ELSE WriteTrace(e, <<value>>)

\* fails fast on anything that is not an integer
_encodeInteger(e, value) ==
  IF e.threw THEN e
  ELSE IF value.t # "number" THEN [e EXCEPT !.threw = TRUE]
  ELSE WriteTrace(e, IntegerBytes(value.v))

_encodeId(e, id) == IF e.threw THEN e ELSE WriteTrace(e, IdBytes(id))

_encodeArrayPrefix(e, value) ==
  IF e.threw THEN e ELSE WriteTrace(e, ArrayPrefix(Len(value)))

_encodeFloat(e, value) == IF e.threw THEN e ELSE WriteTrace(e, FloatBytes(value.v))

\* Chunk.write: the string as a MessagePack str
Chunk_write(value) == StrHeader(Len(Utf8Bytes(value))) \o Utf8Bytes(value)

(***************************************************************************)
(* Dictionary encoder (0.5.js)                                             *)
(***************************************************************************)
\* JavaScript's `value in this._stringMap`: own or inherited property
HasProperty(map, value) == value \in DOMAIN map \/ value \in ObjectPrototypeKeys

\* JavaScript's `this._stringMap[value]`
GetProperty(map, value) ==
  IF value \in DOMAIN map THEN Num(map[value])
  ELSE IF value \in ObjectPrototypeKeys THEN Fn
  ELSE Undefined

\* _cacheString without the `in` test: every occurrence is interned again
_cacheString_always(e, value) ==
  IF e.threw THEN e
  ELSE [e EXCEPT !.stringMap = [s \in DOMAIN @ \cup {value} |->
                                  IF s = value THEN e.stringCount ELSE @[s]],
                 !.stringCount = @ + 1,
                 !.stringBytes = @ \o Chunk_write(value),
                 !.strings = Append(@, value)]

\* _cacheString replacing the dictionary by one that holds the new string only
_cacheString_forget(e, value) ==
  IF e.threw THEN e
  ELSE IF ~HasProperty(e.stringMap, value)
  THEN [e EXCEPT !.stringMap = [s \in {value} |-> e.stringCount],
                 !.stringCount = @ + 1,
                 !.stringBytes = @ \o Chunk_write(value),
                 !.strings = Append(@, value)]
  ELSE e

\* _cacheString with `this._stringCount` in place of `this._stringCount++`
_cacheString_nocount(e, value) ==
  IF e.threw THEN e
  ELSE IF ~HasProperty(e.stringMap, value)
  THEN [e EXCEPT !.stringMap = [s \in DOMAIN @ \cup {value} |->
                                  IF s = value THEN e.stringCount ELSE @[s]],
                 !.stringBytes = @ \o Chunk_write(value),
                 !.strings = Append(@, value)]
  ELSE e

_cacheString(e, value) ==
  IF e.threw THEN e
  ELSE IF ~HasProperty(e.stringMap, value)
  THEN [e EXCEPT !.stringMap = [s \in DOMAIN @ \cup {value} |->
                                  IF s = value THEN e.stringCount ELSE @[s]],
                 !.stringCount = @ + 1,
                 !.stringBytes = @ \o Chunk_write(value),
                 !.strings = Append(@, value)]
  ELSE e

_encodeString(e, v) ==
  IF e.threw THEN e
  ELSE LET value == IF v = Undefined THEN S_empty ELSE v.v
           c == _cacheString(e, value)
           idx == GetProperty(c.stringMap, value)
           logged == [c EXCEPT !.refs = Append(@, [trace |-> c.traceCount, arg |-> v,
                                                   str |-> value, idx |-> idx,
                                                   count |-> c.stringCount])]
       IN _encodeInteger(logged, idx)

\* _encodeMap: header sized to the key count, then each key and value in
\* iteration order; keys and string values go through _encodeString
RECURSIVE EncodeEntries(_, _)
EncodeEntries(e, entries) ==
  IF e.threw \/ Len(entries) = 0 THEN e
  ELSE LET entry == Head(entries)
           k == _encodeString(e, entry.k)
           v == IF entry.v.t = "string" THEN _encodeString(k, entry.v)
                ELSE _encodeFloat(k, entry.v)
       IN EncodeEntries(v, Tail(entries))

_encodeMap(e, map) ==
  IF e.threw THEN e ELSE EncodeEntries(WriteTrace(e, MapPrefix(Len(map.v))), map.v)

\* JavaScript's `x || 0` and `x || {}`
OrZero(x) == IF x = Undefined \/ x = Num(0) THEN Num(0) ELSE x
OrEmptyObject(x) == IF x = Undefined THEN Obj(<< >>) ELSE x

\* history: _encode reached the call that writes `field` of span number k
\* with the encoder `enc` and the argument `arg`
Call(e, k, field, enc, arg) ==
  IF e.threw THEN e
  ELSE [e EXCEPT !.calls = Append(@, [span |-> k, field |-> field, enc |-> enc, arg |-> arg])]

\* the statements of the loop body of _encode, in order
SpanFields ==
  <<"tag", "service", "name", "resource", "trace_id", "span_id", "parent_id",
    "start", "duration", "error", "meta", "metrics", "type">>

\* one statement of the loop body of _encode
WriteField(e, k, span, f) ==
  CASE f = "tag" ->
         _encodeByte(Call(e, k, f, "byte", ARRAY_OF_TWELVE), ARRAY_OF_TWELVE)
    [] f = "service" ->
         _encodeString(Call(e, k, f, "string", span.service), span.service)
    [] f = "name" ->
         _encodeString(Call(e, k, f, "string", span.name), span.name)
    [] f = "resource" ->
         _encodeString(Call(e, k, f, "string", span.resource), span.resource)
    [] f = "trace_id" ->
         _encodeId(Call(e, k, f, "id", span.trace_id), span.trace_id)
    [] f = "span_id" ->
         _encodeId(Call(e, k, f, "id", span.span_id), span.span_id)
    [] f = "parent_id" ->
         _encodeId(Call(e, k, f, "id", span.parent_id), span.parent_id)
    [] f = "start" ->
         _encodeInteger(Call(e, k, f, "integer", OrZero(span.start)), OrZero(span.start))
    [] f = "duration" ->
         _encodeInteger(Call(e, k, f, "integer", OrZero(span.duration)),
                        OrZero(span.duration))
    [] f = "error" ->
         _encodeInteger(Call(e, k, f, "integer", span.error), span.error)
    [] f = "meta" ->
         _encodeMap(Call(e, k, f, "map", OrEmptyObject(span.meta)),
                    OrEmptyObject(span.meta))
    [] f = "metrics" ->
         _encodeMap(Call(e, k, f, "map", OrEmptyObject(span.metrics)),
                    OrEmptyObject(span.metrics))
    [] f = "type" ->
         _encodeString(Call(e, k, f, "string", span.type), span.type)

\* body of the loop of _encode from statement i on; an exception ends it
RECURSIVE EncodeSpan(_, _, _, _)
EncodeSpan(e, k, span, i) ==
  IF e.threw \/ i > Len(SpanFields) THEN e
  ELSE EncodeSpan(WriteField(e, k, span, SpanFields[i]), k, span, i + 1)

RECURSIVE EncodeSpans(_, _, _)
EncodeSpans(e, k, trace) ==
  IF e.threw \/ k > Len(trace) THEN e
  ELSE EncodeSpans(EncodeSpan(e, k, trace[k], 1), k + 1, trace)

_encode(e, trace) ==
  EncodeSpans(_encodeArrayPrefix(Call(e, 0, "prefix", "array", Len(trace)), trace), 1, trace)

\* encode(trace) of the base encoder: count the trace, then append its encoding
EncodeTrace(e, trace) == _encode([e EXCEPT !.traceCount = @ + 1], trace)

(***************************************************************************)
(* Payload assembler                                                       *)
(***************************************************************************)
\* contents of freshly allocated, uninitialised memory (Buffer.allocUnsafe)
AllocUnsafeFill == {0, 193}

\* buffer[offset..] = bytes, offsets counted from 0; writes past the end are dropped
WriteAt(buffer, offset, bytes) ==
  [i \in 1..Len(buffer) |->
     IF i > offset /\ i <= offset + Len(bytes) THEN bytes[i - offset] ELSE buffer[i]]

Min(a, b) == IF a < b THEN a ELSE b

\* Buffer.copy: returns the number of bytes copied
Copied(buffer, offset, bytes) ==
  IF offset >= Len(buffer) THEN 0 ELSE Min(Len(bytes), Len(buffer) - offset)

\* writes the array header for `count` at `offset`
_writeArrayPrefix(w, count) ==
  [buffer |-> WriteAt(w.buffer, w.offset, ArrayPrefix(count)),
   offset |-> w.offset + Len(ArrayPrefix(count))]

_writeStrings(e, w) ==
  LET p == _writeArrayPrefix(w, e.stringCount)
  IN [buffer |-> WriteAt(p.buffer, p.offset, e.stringBytes),
      offset |-> p.offset + Copied(p.buffer, p.offset, e.stringBytes)]

_writeTraces(e, w) ==
  LET p == _writeArrayPrefix(w, e.traceCount)
  IN [buffer |-> WriteAt(p.buffer, p.offset, e.traceBytes),
      offset |-> p.offset + Copied(p.buffer, p.offset, e.traceBytes)]

_reset(e) == EmptyEncoder

\* size makePayload passes to Buffer.allocUnsafe
PayloadSize(e) ==
  LET prefixSize == 1
      stringSize == Len(e.stringBytes) + 5
      traceSize == Len(e.traceBytes) + 5
  IN prefixSize + stringSize + traceSize

\* the buffer and the final offset of makePayload, on memory filled with `fill`
Assemble(e, fill) ==
  LET buffer == [i \in 1..PayloadSize(e) |-> fill]
      w0 == [buffer |-> WriteAt(buffer, 0, <<ARRAY_OF_TWO>>), offset |-> 1]
      w1 == _writeStrings(e, w0)
  IN _writeTraces(e, w1)

(***************************************************************************)
(* The encoder as a state machine                                          *)
(***************************************************************************)
Store(e) ==
  /\ _traceBytes' = e.traceBytes
  /\ _stringBytes' = e.stringBytes
  /\ _stringMap' = e.stringMap
  /\ _stringCount' = e.stringCount
  /\ _traceCount' = e.traceCount
  /\ strings' = e.strings
  /\ refs' = e.refs

Init ==
  /\ _traceBytes = << >>
  /\ _stringBytes = << >>
  /\ _stringMap = << >>
  /\ _stringCount = 0
  /\ _traceCount = 0
  /\ strings = << >>
  /\ refs = << >>
  /\ batch = << >>
  /\ ret = [op |-> "new", threw |-> FALSE]
  /\ heap = << >>
  /\ held = [id |-> 0, bytes |-> << >>]
  /\ pc = "idle"
  /\ options = [commitish |-> Undefined]
  /\ tracer = FALSE
  /\ commitish = Undefined
  /\ latestCache = << >>
  /\ dirs = {}
  /\ cwd = [t \in BOOLEAN |-> Undefined]
  /\ result = [t \in BOOLEAN |-> Undefined]
  /\ status = [t \in BOOLEAN |-> "not called"]
  /\ settled = [t \in BOOLEAN |-> Undefined]
  /\ runner = "not called"
  /\ verdict = [state |-> "none", by |-> "none"]
  /\ steps = << >>

RECURSIVE SpanCount(_)
SpanCount(traces) == IF Len(traces) = 0 THEN 0 ELSE Len(Head(traces)) + SpanCount(Tail(traces))

encode(trace) ==
  /\ _traceCount < MaxTraces
  /\ SpanCount(batch) + Len(trace) <= MaxBatchSpans
  /\ LET e == EncodeTrace(Encoder, trace)
     IN /\ Store(e)
        /\ ret' = [op |-> "encode", threw |-> e.threw, trace |-> trace, calls |-> e.calls]
  /\ batch' = Append(batch, trace)
  /\ UNCHANGED <<callerVars, suiteVars>>

\* makePayload without its call of _reset
makePayload_noReset ==
  \E fill \in AllocUnsafeFill :
    LET w == Assemble(Encoder, fill)
    IN /\ Store(Encoder)
       /\ batch' = << >>
       /\ ret' = [op |-> "makePayload", threw |-> FALSE,
                  buffer |-> w.buffer, offset |-> w.offset, size |-> PayloadSize(Encoder),
                  stringCount |-> _stringCount, traceCount |-> _traceCount,
                  stringBytes |-> _stringBytes, traceBytes |-> _traceBytes,
                  strings |-> strings, refs |-> refs, batch |-> batch]
       /\ UNCHANGED <<callerVars, suiteVars>>

makePayload ==
  \E fill \in AllocUnsafeFill :
    LET w == Assemble(Encoder, fill)
    IN /\ Store(_reset(Encoder))
       /\ batch' = << >>
       /\ ret' = [op |-> "makePayload", threw |-> FALSE,
                  buffer |-> w.buffer, offset |-> w.offset, size |-> PayloadSize(Encoder),
                  stringCount |-> _stringCount, traceCount |-> _traceCount,
                  stringBytes |-> _stringBytes, traceBytes |-> _traceBytes,
                  strings |-> strings, refs |-> refs, batch |-> batch]
       /\ UNCHANGED <<callerVars, suiteVars>>

Next ==
  \/ \E trace \in Traces : encode(trace)
  \/ makePayload

Spec == Init /\ [][Next]_vars

(***************************************************************************)
(* The encoder and a caller that keeps the first payload it was given.     *)
(* A Buffer is a reference to storage; the storage of the two chunks is    *)
(* allocated when the encoder is constructed.                              *)
(***************************************************************************)
ChunkStorage == {1, 2}

\* Buffer.allocUnsafe with a storage no live buffer uses
allocUnsafe_reuse(live) == 3

\* Buffer.allocUnsafe: a buffer on storage that no live buffer uses
allocUnsafe(live) ==
  CHOOSE id \in 1..(Cardinality(live) + 1) :
    id \notin live /\ \A other \in 1..(Cardinality(live) + 1) : other \notin live => id <= other

\* the traces the keeping caller encodes
HeldTraces == {trace \in Traces : \A i \in 1..Len(trace) : trace[i] = SpanA}

\* makePayload, the caller keeping the buffer it returns
makePayloadHeld ==
  \E fill \in AllocUnsafeFill :
    LET w == Assemble(Encoder, fill)
        id == allocUnsafe(ChunkStorage \cup DOMAIN heap)
    IN /\ Store(_reset(Encoder))
       /\ batch' = << >>
       /\ ret' = [op |-> "makePayload", threw |-> FALSE,
                  buffer |-> w.buffer, offset |-> w.offset, size |-> PayloadSize(Encoder),
                  stringCount |-> _stringCount, traceCount |-> _traceCount,
                  stringBytes |-> _stringBytes, traceBytes |-> _traceBytes,
                  strings |-> strings, refs |-> refs, batch |-> batch]
       /\ held' = IF held.id = 0 THEN [id |-> id, bytes |-> w.buffer] ELSE held
       /\ heap' = [i \in {held'.id, id} |-> IF i = id THEN w.buffer ELSE heap[i]]
       /\ UNCHANGED suiteVars

NextHeld ==
  \/ \E trace \in HeldTraces : encode(trace)
  \/ makePayloadHeld

SpecHeld == Init /\ [][NextHeld]_vars

(***************************************************************************)
(* The plugin test suites: the mocha case that runWithMocha registers       *)
(***************************************************************************)
Null == [t |-> "null"]

\* the code of an 'exit' event: null when a signal ended the process
ExitCodes == {Num(0), Num(1), Null}

\* how a spawned command ends: with 'exit' and a code, or with 'error'
Outcomes ==
  [kind : {"exit"}, code : ExitCodes] \cup {[kind |-> "error", code |-> Undefined]}

modName == "some-module"

\* the commitish option of the case
Commitishes == {Str("latest"), Str("v1.0.0")}

\* what the loop over the GitHub tags can return
Tags == {Str("v2.0.0"), Str("v2.0.1"), Undefined}

\* the names mkdtemp can generate
TmpNames == {"dd-trace-js-suites-a", "dd-trace-js-suites-b"}

\* an entry of the history
Entry(cmd, kind, code) == [tracer |-> tracer, cmd |-> cmd, kind |-> kind, code |-> code]

\* exec: the value its promise resolves with on 'exit'
exec(cmd, o) == [cmd |-> cmd, tracer |-> tracer, code |-> o.code]

\* execOrError that returns the result whatever the exit code
execOrError_noThrow(res) == "returned"

\* execOrError: throws an error carrying the result unless the exit code is 0
execOrError(res) == IF res.code # Num(0) THEN "threw" ELSE "returned"

\* defaultRunner with its first expectation only
defaultRunner_zeroOnly(withoutTracer, withTracer) ==
  IF withTracer.code = Num(0) THEN "returned" ELSE "threw"

\* defaultRunner: both expectations, rethrown when one fails
defaultRunner(withoutTracer, withTracer) ==
  IF withTracer.code = Num(0) /\ withTracer.code = withoutTracer.code
  THEN "returned"
  ELSE "threw"

\* getLatest up to its first await: is latestCache[modName] truthy
Cached == modName \in DOMAIN latestCache

\* runOne up to its first await: the commitish it goes on with
runOne_commitish(c) ==
  IF c = Str("latest") /\ Cached THEN latestCache[modName] ELSE c

\* runOne up to its first await: what it awaits
runOne_pc(c) ==
  IF c = Str("latest") /\ ~Cached THEN "npm view" ELSE "getTmpDir"

\* getTmpDir handing out the directory of the run before
getTmpDir_shared(name) ==
  IF cwd[FALSE] # Undefined
  THEN cwd[FALSE]
  ELSE [name |-> name,
        made |-> 1 + Cardinality({i \in 1..Len(steps) : steps[i].cmd = "mkdtemp"})]

\* getTmpDir: the directory a call of mkdtemp creates
getTmpDir(name) ==
  [name |-> name,
   made |-> 1 + Cardinality({i \in 1..Len(steps) : steps[i].cmd = "mkdtemp"})]

\* the command runOne runs after cmd
After(cmd) ==
  CASE cmd = "git clone" -> "git checkout"
    [] cmd = "git checkout" -> "npm install"
    [] cmd = "npm install" -> "test"
    [] cmd = "test" -> "rm -rf"

\* the promise of the runOne call in progress rejects, and with it the promise
\* of run and of the mocha case
Reject(err) ==
  /\ pc' = "done"
  /\ status' = [status EXCEPT ![tracer] = "rejected"]
  /\ settled' = [settled EXCEPT ![tracer] = err]
  /\ verdict' = IF verdict.state = "pending"
                THEN [state |-> "failed", by |-> "run"]
                ELSE verdict

\* mocha calls the function that runWithMocha registered: run, runOne without
\* the tracer, up to the first await
runWithMocha(c) ==
  /\ pc = "idle"
  /\ options' = [commitish |-> c]
  /\ verdict' = [state |-> "pending", by |-> "none"]
  /\ tracer' = FALSE
  /\ status' = [status EXCEPT ![FALSE] = "running"]
  /\ commitish' = runOne_commitish(c)
  /\ pc' = runOne_pc(c)
  /\ UNCHANGED <<latestCache, dirs, cwd, result, settled, runner, steps>>
  /\ UNCHANGED <<encoderVars, callerVars>>

\* getLatest: `npm view` ends and its output is parsed
getLatest_exec ==
  /\ pc = "npm view"
  /\ \E o \in Outcomes, parsed \in BOOLEAN :
       /\ steps' = Append(steps, Entry("npm view", o.kind, o.code))
       /\ IF o.kind = "error"
          THEN Reject([by |-> "exec", result |-> Undefined])
          ELSE IF ~parsed
          THEN Reject([by |-> "JSON.parse", result |-> Undefined])
          ELSE pc' = "get tags" /\ UNCHANGED <<status, settled, verdict>>
  /\ UNCHANGED <<options, tracer, commitish, latestCache, dirs, cwd, result, runner>>
  /\ UNCHANGED <<encoderVars, callerVars>>

\* getLatest: the request for the tags ends, the loop looks for the tag
getLatest_get ==
  /\ pc = "get tags"
  /\ \E ok \in BOOLEAN, tag \in Tags :
       IF ~ok
       THEN /\ steps' = Append(steps, Entry("get tags", "rejected", Undefined))
            /\ Reject([by |-> "get", result |-> Undefined])
            /\ UNCHANGED commitish
       ELSE /\ steps' = steps \o <<Entry("get tags", "resolved", Undefined),
                               Entry("getLatest", "resolved", tag)>>
            /\ commitish' = tag
            /\ pc' = "getTmpDir"
            /\ UNCHANGED <<status, settled, verdict>>
  /\ UNCHANGED <<options, tracer, latestCache, dirs, cwd, result, runner>>
  /\ UNCHANGED <<encoderVars, callerVars>>

\* runOne: mkdtemp ends
runOne_getTmpDir ==
  /\ pc = "getTmpDir"
  /\ \/ /\ steps' = Append(steps, Entry("mkdtemp", "rejected", Undefined))
        /\ Reject([by |-> "mkdtemp", result |-> Undefined])
        /\ UNCHANGED <<dirs, cwd>>
     \/ \E name \in TmpNames :
          /\ \A d \in dirs : d.name # name
          /\ steps' = Append(steps, Entry("mkdtemp", "resolved", Undefined))
          /\ dirs' = dirs \cup {getTmpDir(name)}
          /\ cwd' = [cwd EXCEPT ![tracer] = getTmpDir(name)]
          /\ pc' = "git clone"
          /\ UNCHANGED <<status, settled, verdict>>
  /\ UNCHANGED <<options, tracer, commitish, latestCache, result, runner>>
  /\ UNCHANGED <<encoderVars, callerVars>>

\* runOne: a command run through execOrError ends; after `rm -rf` runOne
\* returns, and run goes on with the second runOne or returns to the runner
runOne_execOrError(cmd) ==
  /\ pc = cmd
  /\ cmd \in {"git clone", "git checkout", "npm install", "rm -rf"}
  /\ \E o \in Outcomes :
       /\ steps' = Append(steps, Entry(cmd, o.kind, o.code))
       /\ IF o.kind = "error"
          THEN /\ Reject([by |-> "exec", result |-> Undefined])
               /\ UNCHANGED <<tracer, commitish, dirs, runner>>
          ELSE IF execOrError(exec(cmd, o)) = "threw"
          THEN /\ Reject([by |-> "execOrError", result |-> exec(cmd, o)])
               /\ UNCHANGED <<tracer, commitish, dirs, runner>>
          ELSE IF cmd # "rm -rf"
          THEN /\ pc' = After(cmd)
               /\ UNCHANGED <<tracer, commitish, dirs, runner, status, settled, verdict>>
          ELSE IF ~tracer
          THEN /\ dirs' = IF o.code = Num(0) THEN dirs \ {cwd[tracer]} ELSE dirs
               /\ settled' = [settled EXCEPT ![FALSE] = result[FALSE]]
               /\ status' = [status EXCEPT ![FALSE] = "resolved", ![TRUE] = "running"]
               /\ tracer' = TRUE
               /\ commitish' = runOne_commitish(options.commitish)
               /\ pc' = runOne_pc(options.commitish)
               /\ UNCHANGED <<runner, verdict>>
          ELSE /\ dirs' = IF o.code = Num(0) THEN dirs \ {cwd[tracer]} ELSE dirs
               /\ settled' = [settled EXCEPT ![TRUE] = result[TRUE]]
               /\ status' = [status EXCEPT ![TRUE] = "resolved"]
               /\ pc' = "done"
               /\ runner' = defaultRunner(settled[FALSE], result[TRUE])
               /\ verdict' = IF verdict.state # "pending" THEN verdict
                             ELSE IF runner' = "returned"
                             THEN [state |-> "passed", by |-> "runner"]
                             ELSE [state |-> "failed", by |-> "runner"]
               /\ UNCHANGED <<tracer, commitish>>
  /\ UNCHANGED <<options, latestCache, cwd, result>>
  /\ UNCHANGED <<encoderVars, callerVars>>

\* runOne: the test command, run through exec, ends
runOne_exec ==
  /\ pc = "test"
  /\ \E o \in Outcomes :
       /\ steps' = Append(steps, Entry("test", o.kind, o.code))
       /\ IF o.kind = "error"
          THEN Reject([by |-> "exec", result |-> Undefined]) /\ UNCHANGED result
          ELSE /\ result' = [result EXCEPT ![tracer] = exec("test", o)]
               /\ pc' = After("test")
               /\ UNCHANGED <<status, settled, verdict>>
  /\ UNCHANGED <<options, tracer, commitish, latestCache, dirs, cwd, runner>>
  /\ UNCHANGED <<encoderVars, callerVars>>

\* this.timeout(timeout): the timer of mocha fires while the case is pending
timeout ==
  /\ verdict.state = "pending"
  /\ verdict' = [state |-> "failed", by |-> "timeout"]
  /\ UNCHANGED <<pc, options, tracer, commitish, latestCache, dirs, cwd, result,
                 status, settled, runner, steps>>
  /\ UNCHANGED <<encoderVars, callerVars>>

NextSuite ==
  \/ \E c \in Commitishes : runWithMocha(c)
  \/ getLatest_exec
  \/ getLatest_get
  \/ runOne_getTmpDir
  \/ \E cmd \in {"git clone", "git checkout", "npm install", "rm -rf"} : runOne_execOrError(cmd)
  \/ runOne_exec
  \/ timeout

SpecSuite == Init /\ [][NextSuite]_vars

(***************************************************************************)
(* Properties                                                              *)
(***************************************************************************)
\* the string a string field stands for: an absent field is the empty string
StringOf(v) == IF v = Undefined THEN S_empty ELSE v.v

\* positions of the string s in the string table
EntriesOf(table, s) == {k \in 1..Len(table) : table[k] = s}

\* C1 - index validity: whatever _encodeString hands to _encodeInteger is an
\* integer i with 0 <= i < _stringCount, both when it is written and later,
\* and entry i of the string region is the string that was encoded.
C1_IndexValidity ==
  \A i \in 1..Len(refs) :
    /\ refs[i].idx.t = "number"
    /\ refs[i].idx.v >= 0
    /\ refs[i].idx.v < refs[i].count
    /\ refs[i].idx.v < _stringCount
    /\ strings[refs[i].idx.v + 1] = refs[i].str

\* C2 - round-trip sizing: the returned buffer has the precomputed size and the
\* write offset after the outer header and both sections equals that length.
C2_RoundTripSizing ==
  ret.op = "makePayload" =>
    /\ Len(ret.buffer) = ret.size
    /\ ret.offset = Len(ret.buffer)

\* services of the spans of a trace
ServicesOf(trace) == {StringOf(trace[k].service) : k \in 1..Len(trace)}

\* C3 - cross-trace dedup: a service string shared by two traces of the batch
\* has exactly one entry in the string table, and both traces reference that
\* entry by its index.
C3_CrossTraceDedup ==
  \A p, q \in 1..Len(batch) :
    p < q =>
      \A s \in ServicesOf(batch[p]) \cap ServicesOf(batch[q]) :
        /\ Cardinality(EntriesOf(strings, s)) = 1
        /\ \A t \in {p, q} : \E i \in 1..Len(refs) : refs[i].trace = t /\ refs[i].str = s
        /\ \A i \in 1..Len(refs) :
             refs[i].str = s =>
               /\ refs[i].idx.t = "number"
               /\ EntriesOf(strings, s) = {refs[i].idx.v + 1}

\* the distinct strings of a reference log, in the order of their first occurrence
RECURSIVE FirstSeen(_)
FirstSeen(log) ==
  IF Len(log) = 0 THEN << >>
  ELSE LET before == FirstSeen(SubSeq(log, 1, Len(log) - 1))
           s == log[Len(log)].str
       IN IF EntriesOf(before, s) = {} THEN Append(before, s) ELSE before

\* the string region holding each string of a table once, in order
RECURSIVE StringRegion(_)
StringRegion(table) ==
  IF Len(table) = 0 THEN << >> ELSE Chunk_write(Head(table)) \o StringRegion(Tail(table))

\* C4 - first-seen index assignment: the strings encoded since the last reset
\* are numbered 0, 1, 2, ... in the order of their first occurrence, each has its
\* bytes once in the string region, every occurrence hands that number to
\* _encodeInteger, and the dictionary holds as many entries as there are
\* distinct strings.
C4_FirstSeenIndices ==
  /\ strings = FirstSeen(refs)
  /\ _stringBytes = StringRegion(FirstSeen(refs))
  /\ _stringCount = Len(FirstSeen(refs))
  /\ Cardinality(DOMAIN _stringMap) = Len(FirstSeen(refs))
  /\ \A i \in 1..Len(refs) :
       /\ refs[i].idx.t = "number"
       /\ EntriesOf(FirstSeen(refs), refs[i].str) = {refs[i].idx.v + 1}

\* a new encoder given the traces one encode() call after the other
RECURSIVE EncodeAll(_)
EncodeAll(traces) ==
  IF Len(traces) = 0 THEN EmptyEncoder
  ELSE LET e == EncodeAll(SubSeq(traces, 1, Len(traces) - 1))
       IN [EncodeTrace(e, traces[Len(traces)]) EXCEPT !.threw = FALSE, !.calls = << >>]

\* C5 - reset on flush: when makePayload has returned, both regions, the
\* dictionary and both counters are empty, and the buffer it returned is one a
\* new encoder returns for the traces encoded since the previous makePayload
\* alone: nothing of an earlier batch is in it.
C5_ResetOnFlush ==
  ret.op = "makePayload" =>
    /\ _traceBytes = << >>
    /\ _stringBytes = << >>
    /\ DOMAIN _stringMap = {}
    /\ _stringCount = 0
    /\ _traceCount = 0
    /\ \E fill \in AllocUnsafeFill :
         /\ ret.buffer = Assemble(EncodeAll(ret.batch), fill).buffer
         /\ ret.offset = Assemble(EncodeAll(ret.batch), fill).offset

\* makePayload has flushed a batch with traces and strings
C5_Witness ==
  /\ ret.op = "makePayload"
  /\ ret.traceCount > 0
  /\ ret.stringCount > 0
  /\ Len(ret.traceBytes) > 0
  /\ _stringCount = 0

\* the payload of a batch without traces and strings
MinimalEmptyPayload == <<ARRAY_OF_TWO>> \o ArrayPrefix(0) \o ArrayPrefix(0)

\* C6 - empty batch: makePayload with no encode() since construction or since
\* the previous makePayload does not throw and returns the minimal empty-batch
\* payload, always the same, and every payload of a batch with at least one
\* trace is longer.
C6_EmptyBatch ==
  ret.op = "makePayload" =>
    /\ ~ret.threw
    /\ ret.batch = << >> => ret.buffer = MinimalEmptyPayload
    /\ ret.batch # << >> => Len(ret.buffer) > Len(MinimalEmptyPayload)

\* array-prefix width rule: 1 byte up to 15 elements, 3 up to 65535, 5 otherwise
PrefixWidth(n) == IF n <= 15 THEN 1 ELSE IF n <= 65535 THEN 3 ELSE 5

\* C7 - payload size formula: the size makePayload allocates is 1 + (width of
\* the string-table header + string region length) + (width of the trace-table
\* header + trace region length), the widths following the element counts.
C7_PayloadSizeFormula ==
  ret.op = "makePayload" =>
    ret.size = 1 + (PrefixWidth(ret.stringCount) + Len(ret.stringBytes))
                 + (PrefixWidth(ret.traceCount) + Len(ret.traceBytes))

\* the writes of one span, in the order of the wire format
SpanLayout(k, span) ==
  <<[span |-> k, field |-> "tag", enc |-> "byte", arg |-> ARRAY_OF_TWELVE],
    [span |-> k, field |-> "service", enc |-> "string", arg |-> span.service],
    [span |-> k, field |-> "name", enc |-> "string", arg |-> span.name],
    [span |-> k, field |-> "resource", enc |-> "string", arg |-> span.resource],
    [span |-> k, field |-> "trace_id", enc |-> "id", arg |-> span.trace_id],
    [span |-> k, field |-> "span_id", enc |-> "id", arg |-> span.span_id],
    [span |-> k, field |-> "parent_id", enc |-> "id", arg |-> span.parent_id],
    [span |-> k, field |-> "start", enc |-> "integer",
     arg |-> IF span.start = Undefined THEN Num(0) ELSE span.start],
    [span |-> k, field |-> "duration", enc |-> "integer",
     arg |-> IF span.duration = Undefined THEN Num(0) ELSE span.duration],
    [span |-> k, field |-> "error", enc |-> "integer", arg |-> span.error],
    [span |-> k, field |-> "meta", enc |-> "map",
     arg |-> IF span.meta = Undefined THEN Obj(<< >>) ELSE span.meta],
    [span |-> k, field |-> "metrics", enc |-> "map",
     arg |-> IF span.metrics = Undefined THEN Obj(<< >>) ELSE span.metrics],
    [span |-> k, field |-> "type", enc |-> "string", arg |-> span.type]>>

RECURSIVE TraceLayout(_, _)
TraceLayout(trace, k) ==
  IF k = 0 THEN <<[span |-> 0, field |-> "prefix", enc |-> "array", arg |-> Len(trace)]>>
  ELSE TraceLayout(trace, k - 1) \o SpanLayout(k, trace[k])

\* C8 - span layout: encode() of a trace writes one array prefix for the span
\* count and then, per span in order, the 12-element tag and the twelve fields
\* service, name, resource, trace_id, span_id, parent_id, start, duration,
\* error, meta, metrics, type; strings as indices, ids with the id encoder,
\* absent start and duration as 0.
C8_SpanLayout ==
  ret.op = "encode" => ret.calls = TraceLayout(ret.trace, Len(ret.trace))

\* C9 - empty and absent strings: an absent string field and an empty one are
\* both interned as the empty string and get one and the same index, and every
\* string field is written as an index into the string table.
C9_EmptyAndAbsent ==
  /\ \A i \in 1..Len(refs) :
       refs[i].arg \in {Undefined, Str(S_empty)} =>
         /\ refs[i].str = S_empty
         /\ refs[i].idx.t = "number"
         /\ EntriesOf(strings, S_empty) = {refs[i].idx.v + 1}
  /\ \A i \in 1..Len(refs) :
       /\ refs[i].idx.t = "number"
       /\ refs[i].idx.v + 1 \in 1..Len(strings)

\* C10 - wire container: the returned buffer is the tag 0x92, the string table
\* (array header with the number of interned strings, then the string region),
\* and the trace table, with nothing between or after them.
C10_WireContainer ==
  ret.op = "makePayload" =>
    /\ ret.buffer[1] = 146
    /\ ret.buffer = <<ARRAY_OF_TWO>> \o ArrayPrefix(ret.stringCount) \o ret.stringBytes
                    \o ArrayPrefix(ret.traceCount) \o ret.traceBytes

\* C11 - dictionary determinism: a second, new encoder given the same traces
\* (here on zero-filled memory) ends with the same string table and the same
\* index assignments, and returns the same payload.
C11_DictionaryDeterminism ==
  ret.op = "makePayload" =>
    /\ ret.strings = EncodeAll(ret.batch).strings
    /\ ret.stringBytes = EncodeAll(ret.batch).stringBytes
    /\ ret.refs = EncodeAll(ret.batch).refs
    /\ ret.buffer = Assemble(EncodeAll(ret.batch), 0).buffer

\* the batch of the example scenario: one trace of the two spans
ScenarioBatch == <<(<<SpanA, SpanB>>)>>

\* C12 (as stated) - example scenario: the string table is "web", "GET /a",
\* "GET /b", "" in this order, "web" has index 0 and the service of both spans
\* is written as that index.
C12_ScenarioAsStated ==
  batch = ScenarioBatch =>
    /\ strings = <<S_web, S_GET_a, S_GET_b, S_empty>>
    /\ _stringMap[S_web] = 0
    /\ refs[1].idx = Num(0)
    /\ refs[5].idx = Num(0)

\* C12 - example scenario: the string table has the 4 entries "web", "GET /a",
\* "", "GET /b" in this, first-seen, order (the absent resource and the empty
\* type of the first span come before the name of the second), "web" has
\* index 0 and the service of both spans is written as that index.
C12_Scenario ==
  batch = ScenarioBatch =>
    /\ strings = <<S_web, S_GET_a, S_empty, S_GET_b>>
    /\ _stringCount = 4
    /\ _stringMap[S_web] = 0
    /\ refs[1].arg = SpanA.service /\ refs[1].idx = Num(0)
    /\ refs[5].arg = SpanB.service /\ refs[5].idx = Num(0)

\* encode() of the scenario trace has returned
C12_Witness ==
  /\ batch = ScenarioBatch
  /\ ret.op = "encode"
  /\ ~ret.threw
  /\ Len(refs) = 8

\* C14 - batch lifecycle: an encode() call never shrinks the trace region, the
\* string region or the string count, keeps every dictionary entry with its
\* index, and leaves a batch that is not empty; a makePayload() call leaves
\* the empty batch.
C14_BatchLifecycle ==
  [][/\ ret'.op = "encode" =>
          /\ Len(_traceBytes') >= Len(_traceBytes)
          /\ SubSeq(_traceBytes', 1, Len(_traceBytes)) = _traceBytes
          /\ Len(_stringBytes') >= Len(_stringBytes)
          /\ SubSeq(_stringBytes', 1, Len(_stringBytes)) = _stringBytes
          /\ _stringCount' >= _stringCount
          /\ _traceCount' = _traceCount + 1
          /\ Len(_traceBytes') > 0
          /\ \A s \in DOMAIN _stringMap :
               s \in DOMAIN _stringMap' /\ _stringMap'[s] = _stringMap[s]
     /\ ret'.op = "makePayload" =>
          /\ _traceCount' = 0
          /\ _stringCount' = 0
          /\ _traceBytes' = << >>
          /\ _stringBytes' = << >>]_vars

\* a second encode() of one batch found strings of the first in the dictionary
C14_Witness ==
  /\ ret.op = "encode"
  /\ _traceCount = 2
  /\ \E i, j \in 1..Len(refs) :
       refs[i].trace = 1 /\ refs[j].trace = 2 /\ refs[i].str = refs[j].str
       /\ refs[j].str \in DOMAIN _stringMap

\* C16 - string-table count consistency: _stringCount is the number of keys
\* _cacheString recorded in _stringMap and the number of strings written to the
\* string region, which holds exactly these strings, so the count in the
\* string-table header is the number of strings after it; also when a string
\* names a property inherited from Object.prototype.
C16_StringCountConsistency ==
  /\ _stringCount = Cardinality(DOMAIN _stringMap)
  /\ _stringCount = Len(strings)
  /\ _stringBytes = StringRegion(strings)
  /\ \A k \in 1..Len(strings) : _stringMap[strings[k]] = k - 1
  /\ ret.op = "makePayload" =>
       /\ ret.stringCount = Len(ret.strings)
       /\ ret.stringBytes = StringRegion(ret.strings)
       /\ SubSeq(ret.buffer, 2, 1 + Len(ArrayPrefix(ret.stringCount)))
            = ArrayPrefix(Len(ret.strings))

\* a string naming an inherited property was encoded next to interned strings
C16_Witness ==
  /\ _stringCount > 0
  /\ \E i \in 1..Len(refs) : refs[i].str \in ObjectPrototypeKeys

\* C13 - buffer ownership: makePayload returns a buffer on storage of its own,
\* used neither by the chunks of the batch nor by a buffer returned before, and
\* the bytes of a buffer the caller kept stay what they were when it was
\* returned, whatever is encoded and flushed later.
C13_BufferOwnership ==
  /\ DOMAIN heap \cap ChunkStorage = {}
  /\ held.id # 0 =>
       /\ held.id \in DOMAIN heap
       /\ heap[held.id] = held.bytes

\* a later makePayload returned another payload while the first was kept
C13_Witness ==
  /\ held.id # 0
  /\ ret.op = "makePayload"
  /\ ret.buffer # held.bytes
  /\ \E id \in DOMAIN heap : id # held.id /\ heap[id] = ret.buffer

\* the commands of runOne, in the order of its source
Order == <<"git clone", "git checkout", "npm install", "test", "rm -rf">>

\* what the runOne call with withTracer = t has run of these commands so far
RunSteps(t) ==
  SelectSeq(steps, LAMBDA e : e.tracer = t /\ \E k \in 1..Len(Order) : e.cmd = Order[k])

\* C15 (as stated) - suite verdict: when the case is over (not by its
\* timeout) it has passed if and only if the test command exited with 0 with
\* the tracer and with the same code without it, and otherwise the runner threw.
C15_SuiteVerdictAsStated ==
  (pc = "done" /\ verdict.by # "timeout") =>
    /\ verdict.state = "passed" <=>
         \E i, j \in 1..Len(steps) :
           /\ steps[i].cmd = "test" /\ ~steps[i].tracer
           /\ steps[j].cmd = "test" /\ steps[j].tracer
           /\ steps[j].code = Num(0)
           /\ steps[j].code = steps[i].code
    /\ verdict.state # "passed" => runner = "threw"

\* C15 - suite verdict: the default runner is called only when run resolved,
\* returns if and only if the exit code of the test command with the tracer is
\* 0 and equals the one without the tracer, and throws otherwise; the case
\* passes if and only if that call returned before the timeout of the case;
\* when run rejects the case fails with the rejection, the runner not called.
C15_SuiteVerdict ==
  /\ runner # "not called" =>
       /\ status = [t \in BOOLEAN |-> "resolved"]
       /\ \A t \in BOOLEAN :
            settled[t].code = RunSteps(t)[4].code /\ settled[t].tracer = t
       /\ runner = "returned" <=>
            (settled[TRUE].code = Num(0) /\ settled[TRUE].code = settled[FALSE].code)
  /\ verdict.state = "passed" <=> (runner = "returned" /\ verdict.by = "runner")
  /\ verdict.state = "failed" =>
       \/ verdict.by = "runner" /\ runner = "threw"
       \/ verdict.by = "run" /\ runner = "not called"
            /\ \E t \in BOOLEAN : status[t] = "rejected"
       \/ verdict.by = "timeout"
  /\ pc = "done" => verdict.state \in {"passed", "failed"}

\* the test command exited with 0 with the tracer and with 1 without it
C15_Witness ==
  /\ pc = "done"
  /\ runner = "threw"
  /\ verdict = [state |-> "failed", by |-> "runner"]
  /\ settled[TRUE].code = Num(0)
  /\ settled[FALSE].code = Num(1)

C18_RunOrdering ==
  /\ status[TRUE] # "not called" =>
       /\ status[FALSE] = "resolved"
       /\ cwd[FALSE] \notin dirs
       /\ \E i \in 1..Len(steps) :
            /\ steps[i] = [tracer |-> FALSE, cmd |-> "rm -rf", kind |-> "exit", code |-> Num(0)]
            /\ \A j \in 1..Len(steps) : steps[j].tracer <=> j > i
  /\ ~(status[FALSE] = "running" /\ status[TRUE] = "running")
  /\ cwd[TRUE] # Undefined => cwd[TRUE] # cwd[FALSE]
  /\ status[FALSE] = "rejected" =>
       /\ status[TRUE] = "not called"
       /\ \A j \in 1..Len(steps) : ~steps[j].tracer

\* the run with the tracer works in its directory, the run without is over
C18_Witness ==
  /\ status[TRUE] = "running"
  /\ cwd[TRUE] \in dirs
  /\ pc = "test"

\* C19 - getLatest memoisation: after a getLatest call has resolved with a
\* tag, no `npm view` and no request for the tags is made for the module, and
\* a later getLatest call resolves with the same tag.
C19_LatestMemoised ==
  \A i, j \in 1..Len(steps) :
    (i < j /\ steps[i].cmd = "getLatest" /\ steps[i].code # Undefined) =>
      /\ steps[j].cmd \notin {"npm view", "get tags"}
      /\ steps[j].cmd = "getLatest" => steps[j].code = steps[i].code

====
